---- MODULE Spec2Model ----
(***************************************************************************)
(* The request handler and dispatcher of ya-dns (src/src/handler.rs):      *)
(* Handler::handle_request, Handler::do_handle_request and Handler::lookup *)
(* with the resolve tasks lookup spawns and the bounded channel they share.*)
(* ConfigBuilder::build and the builders it calls (src/src/config.rs).     *)
(***************************************************************************)
EXTENDS Integers, Sequences, FiniteSets, TLC

\* ------------------------------------------------------------------ bounds
NumQueries == 2
NumUpstreams == 2

Queries == 1..NumQueries
\* The names that have a resolver (the keys of config.resolvers).
Upstreams == 1..NumUpstreams
\* A name a request rule may list although no upstream of that name exists.
UnknownName == NumUpstreams + 1

\* ------------------------------------------------------------------ values
\* Option<T>: None is the empty sequence, Some(x) the one-element sequence.
None == <<>>
Some(x) == <<x>>
IsSome(o) == Len(o) = 1
Unwrap(o) == o[1]

Addrs == {"1.2.3.4", "8.8.8.8"}
\* A Lookup as the handler uses it: the records it carries.
Lookups == {[records |-> <<a>>] : a \in Addrs}

OpCodes == {"Query", "Update"}
MessageTypes == {"Query", "Response"}
QueryNames == {"foo.test", "www.example.cn", "none.test", "ghost.test", "pair.test"}

\* Every request the server library can deliver.
AllRequests ==
    [id : {7, 8}, op_code : OpCodes, message_type : MessageTypes,
     recursion_desired : BOOLEAN, name : QueryNames]

\* A plain query: op code Query, message type Query, rd set, id 7.
PlainQueries ==
    {r \in AllRequests :
        /\ r.op_code = "Query" /\ r.message_type = "Query"
        /\ r.recursion_desired /\ r.id = 7}

\* The requests of the single client: a plain query for every name the
\* request rules and the default route tell apart, and every combination of
\* op code, message type, rd bit and id for one name.
Requests ==
    {r \in AllRequests : r.name # "pair.test" /\ (r.name = "foo.test" \/ r \in PlainQueries)}

\* The requests sent as request q while other requests are being handled.
\* The first is a plain query routed to a pair of upstreams, to one upstream
\* or to an unknown one; every other is a plain query routed to one upstream,
\* or an Update.
ConcurrentRequests(q) ==
    IF q = 1
    THEN {r \in PlainQueries : r.name \in {"pair.test", "www.example.cn", "ghost.test"}}
    ELSE {r \in AllRequests :
             /\ r.name = "www.example.cn" /\ r.message_type = "Query"
             /\ r.recursion_desired /\ r.id = 7}

\* ------------------------------------------------------------------ config
\* IP range lists by name: cn = 1.0.0.0/8.
RangeContains(range, addr) == range = "cn" /\ addr = "1.2.3.4"

RequestRules ==
    << [domains |-> Some({"www.example.cn"}), upstreams |-> <<NumUpstreams>>],
       [domains |-> Some({"none.test"}), upstreams |-> <<>>],
       [domains |-> Some({"ghost.test"}), upstreams |-> <<1, UnknownName>>],
       [domains |-> Some({"pair.test"}), upstreams |-> <<1, NumUpstreams>>] >>

\* The response policies the model is checked under.
ResponseRuleLists ==
    { <<>>,
      << [upstreams |-> Some({1}), ranges |-> Some({"cn"}), domains |-> None,
          action |-> "Drop"] >>,
      << [upstreams |-> None, ranges |-> None, domains |-> Some({"foo.test"}),
          action |-> "Drop"] >>,
      << [upstreams |-> Some({NumUpstreams}), ranges |-> None, domains |-> None,
          action |-> "Accept"],
         [upstreams |-> None, ranges |-> None, domains |-> None,
          action |-> "Drop"] >> }

Configs ==
    [resolvers : {Upstreams},
     default_upstreams : {[k \in 1..NumUpstreams |-> k]},
     request_rules : {RequestRules},
     response_rules : ResponseRuleLists]

\* The configurations concurrent requests are checked under: no response
\* rule, and the rule that drops the first upstream's answers inside cn.
ConcurrentConfigs ==
    {c \in Configs :
        \A j \in 1..Len(c.response_rules) : IsSome(c.response_rules[j].ranges)}

\* ------------------------------------------------------------------ filter
RECURSIVE FirstTrue(_, _)
\* Index of the first TRUE element of the boolean sequence bs at or after k, 0 if none.
FirstTrue(bs, k) ==
    IF k > Len(bs) THEN 0
    ELSE IF bs[k] THEN k
    ELSE FirstTrue(bs, k + 1)

RECURSIVE Dedup(_)
\* The sequence with every repeated element removed, first occurrences kept.
Dedup(s) ==
    IF s = <<>> THEN <<>>
    ELSE LET init == Dedup(SubSeq(s, 1, Len(s) - 1))
             last == s[Len(s)]
         IN IF \E j \in 1..Len(init) : init[j] = last THEN init
            ELSE Append(init, last)

RequestRuleMatches(rule, query) ==
    ~IsSome(rule.domains) \/ query.name \in Unwrap(rule.domains)

\* filter::resolvers: the upstream names the router selects for a query.
resolvers(cfg, query) ==
    LET rules == cfg.request_rules
        k == FirstTrue([j \in 1..Len(rules) |-> RequestRuleMatches(rules[j], query)], 1)
    IN IF k = 0 THEN cfg.default_upstreams
       ELSE Dedup(cfg.request_rules[k].upstreams)

ResponseRuleMatches(rule, domain, name, lookup) ==
    /\ ~IsSome(rule.upstreams) \/ name \in Unwrap(rule.upstreams)
    /\ ~IsSome(rule.domains) \/ domain \in Unwrap(rule.domains)
    /\ \/ ~IsSome(rule.ranges)
       \/ \E j \in 1..Len(lookup.records) : \E r \in Unwrap(rule.ranges) :
              RangeContains(r, lookup.records[j])

\* filter::check_response: Accept or Drop for one upstream's answer.
check_response(cfg, domain, name, lookup) ==
    LET rules == cfg.response_rules
        k == FirstTrue([j \in 1..Len(rules) |->
                           ResponseRuleMatches(rules[j], domain, name, lookup)], 1)
    IN IF k = 0 THEN "Accept" ELSE cfg.response_rules[k].action

\* ------------------------------------------------------------------ state
VARIABLES
    config,         \* the HandlerConfig, fixed after construction
    clients,        \* clients[q]: the requests a client may send as request q
    workers,        \* the number of worker threads of the server's runtime
    builder,        \* the ConfigBuilder that build is called on
    build,          \* the progress and the result of ConfigBuilder::build
    resolver,       \* resolver[name]: the RecursiveResolver made from upstream name
    request,        \* request[q]: the Request handle_request was given, or None
    pc,             \* pc[q]: where handle_request of q stands
    names,          \* names[q]: `resolvers`, the selected upstream names
    task,           \* task[q][k]: the k-th spawned resolve task of q
    chan,           \* chan[q]: the messages buffered in q's bounded channel
    rx,             \* rx[q]: q's receiver exists
    i,              \* i[q]: iterations of the receive loop completed
    lookup_result,  \* lookup_result[q]: Option<Lookup> of the loop
    result,         \* result[q]: what do_handle_request returned, or None
    response,       \* response[q]: the message sent to the client, or None
    arrived,        \* history: the messages put on q's channel, in order
    received,       \* history: the messages q's receive loop took, in order
    checked         \* history: the (name, lookup) pairs passed to the filter

vars == <<config, clients, workers, builder, build, resolver, request, pc, names, task, chan, rx, i, lookup_result,
          result, response, arrived, received, checked>>

\* Result<T, E>
Ok(x) == [ok |-> TRUE, val |-> x]
Err(e) == [ok |-> FALSE, val |-> e]

\* A spawned task: running, finished (it sent, or tried to) or killed by the
\* runtime's shutdown.  outcome and sent record what its resolve and its
\* try_send returned; name is the upstream name its closure captured.
RunningTask(name) == [st |-> "running", name |-> name, outcome |-> "none", sent |-> "none"]

InitHandler ==
    /\ request = [q \in Queries |-> None]
    /\ pc = [q \in Queries |-> "idle"]
    /\ names = [q \in Queries |-> <<>>]
    /\ task = [q \in Queries |-> <<>>]
    /\ chan = [q \in Queries |-> <<>>]
    /\ rx = [q \in Queries |-> FALSE]
    /\ i = [q \in Queries |-> 0]
    /\ lookup_result = [q \in Queries |-> None]
    /\ result = [q \in Queries |-> None]
    /\ response = [q \in Queries |-> None]
    /\ arrived = [q \in Queries |-> <<>>]
    /\ received = [q \in Queries |-> <<>>]
    /\ checked = [q \in Queries |-> <<>>]

\* One client: request 1 may be any request, no other request is sent.
Init ==
    /\ config \in Configs
    /\ InitHandler
    /\ builder = None /\ build = [pc |-> "idle"] /\ resolver = <<>>
    /\ workers = NumQueries
    /\ clients = [q \in Queries |-> IF q = 1 THEN Requests ELSE {}]

\* Concurrent clients: every request may be sent, and all are in flight together.
InitConcurrent ==
    /\ config \in ConcurrentConfigs
    /\ InitHandler
    /\ builder = None /\ build = [pc |-> "idle"] /\ resolver = <<>>
    /\ workers = NumQueries
    /\ clients = [q \in Queries |-> ConcurrentRequests(q)]

\* Concurrent clients of a server whose runtime has one worker thread fewer
\* than there are requests.
InitWorkers ==
    /\ config \in ConcurrentConfigs
    /\ InitHandler
    /\ builder = None /\ build = [pc |-> "idle"] /\ resolver = <<>>
    /\ workers = NumQueries - 1
    /\ clients = [q \in Queries |-> ConcurrentRequests(q)]

\* ------------------------------------------------------------------ handler
Query(q) == Unwrap(request[q])
resolvers_len(q) == Len(names[q])

\* handle_request of q is being polled by a worker thread of the server's
\* runtime: from its first poll until it awaits send_response it runs without
\* an await that can suspend (rx.recv() blocks the thread).
OnWorker(q) == pc[q] \in {"do_handle_request", "spawn", "recv", "shutdown", "respond"}

\* The server library hands request req to handle_request: a free worker
\* thread starts polling the future.
Receive(q, req) ==
    /\ pc[q] = "idle"
    /\ Cardinality({p \in Queries : OnWorker(p)}) < workers
    /\ req \in clients[q]
    /\ request' = [request EXCEPT ![q] = Some(req)]
    /\ pc' = [pc EXCEPT ![q] = "do_handle_request"]
    /\ UNCHANGED <<config, clients, workers, builder, build, resolver, names, task, chan, rx, i, lookup_result, result,
                   response, arrived, received, checked>>

\* The test with `&&` for `||`: only a request wrong in both is turned away.
NotAQueryBoth(req) == req.op_code # "Query" /\ req.message_type # "Query"

\* do_handle_request's test: the request is a query and the message type is a query.
NotAQuery(req) == req.op_code # "Query" \/ req.message_type # "Query"

\* do_handle_request on a request that is not a query: Refused, no lookup.
Refuse(q) ==
    /\ pc[q] = "do_handle_request"
    /\ NotAQuery(Query(q))
    /\ result' = [result EXCEPT ![q] =
                     Some(Ok([lookup |-> None, code |-> "Refused"]))]
    /\ pc' = [pc EXCEPT ![q] = "respond"]
    /\ UNCHANGED <<config, clients, workers, builder, build, resolver, request, names, task, chan, rx, i, lookup_result,
                   response, arrived, received, checked>>

\* lookup, up to the spawning: select the upstreams, create the channel of
\* capacity resolvers_len and the runtime.
LookupStart(q) ==
    /\ pc[q] = "do_handle_request"
    /\ ~NotAQuery(Query(q))
    /\ LET selected == resolvers(config, Query(q))
       IN /\ names' = [names EXCEPT ![q] = selected]
          /\ pc' = [pc EXCEPT ![q] =
                       IF Len(selected) = 0 THEN "shutdown" ELSE "spawn"]
    /\ rx' = [rx EXCEPT ![q] = TRUE]
    /\ UNCHANGED <<config, clients, workers, builder, build, resolver, request, task, chan, i, lookup_result, result,
                   response, arrived, received, checked>>

\* The name the map/for_each pipeline handles next.
NextName(q) == names[q][Len(task[q]) + 1]

\* A hedged dispatch: the receive loop starts after the first spawn.
AfterSpawnHedged(spawned, n) == "recv"

\* Where lookup goes after a spawn: for_each runs the pipeline to its end
\* before the receive loop is entered.
AfterSpawn(spawned, n) == IF spawned = n THEN "recv" ELSE "spawn"

\* One turn of the map/for_each pipeline: the resolver of the next name is
\* found and its task is spawned.
SpawnTask(q) ==
    /\ pc[q] = "spawn"
    /\ Len(task[q]) < resolvers_len(q)
    /\ NextName(q) \in config.resolvers
    /\ task' = [task EXCEPT ![q] = Append(@, RunningTask(NextName(q)))]
    /\ pc' = [pc EXCEPT ![q] = AfterSpawn(Len(task[q]) + 1, resolvers_len(q))]
    /\ UNCHANGED <<config, clients, workers, builder, build, resolver, request, names, chan, rx, i, lookup_result, result,
                   response, arrived, received, checked>>

\* One turn of the pipeline for a name with no resolver: the unwrap of
\* config.resolvers.get(&name) panics and handle_request unwinds; the
\* receiver and the runtime are dropped.
SpawnPanic(q) ==
    /\ pc[q] = "spawn"
    /\ NextName(q) \notin config.resolvers
    /\ pc' = [pc EXCEPT ![q] = "panicked"]
    /\ rx' = [rx EXCEPT ![q] = FALSE]
    /\ chan' = [chan EXCEPT ![q] = <<>>]
    /\ UNCHANGED <<config, clients, workers, builder, build, resolver, request, names, task, i, lookup_result, result,
                   response, arrived, received, checked>>

\* ------------------------------------------------------------------ tasks
\* One channel shared by every lookup instead of one per call.
txShared(q) == 1

\* A channel with room for one message whatever the number of tasks.
boundedOne(n) == 1

\* The capacity of the channel lookup creates for n selected upstreams.
bounded(n) == n

\* The sender a task of query q holds: a clone of the tx of q's own channel.
tx(q) == q

\* A task that reports a failed resolve as an answer without records.
TaskMessageEmptyAnswer(res, name, domain) ==
    IF res.ok THEN Some(<<res.val, name, domain>>)
    ELSE Some(<<[records |-> <<>>], name, domain>>)

\* A task that signs every answer with the first upstream's name.
TaskMessageFirstName(res, name, domain) ==
    IF res.ok THEN Some(<<res.val, 1, domain>>) ELSE None

\* What a task puts on the channel for the outcome of its timed resolve:
\* the answer with the upstream's name and the domain, or the negative marker.
TaskMessage(res, name, domain) ==
    IF res.ok THEN Some(<<res.val, name, domain>>) ELSE None

\* try_send on a bounded channel: the message is queued unless the receiver
\* is gone or the buffer holds cap messages.
try_send(ch, cap, alive, msg) ==
    IF ~alive THEN [chan |-> ch, sent |-> "Disconnected"]
    ELSE IF Len(ch) >= cap THEN [chan |-> ch, sent |-> "Full"]
    ELSE [chan |-> Append(ch, msg), sent |-> "Ok"]

\* The runtime of q's lookup has been shut down (or dropped by the unwinding).
RuntimeShutDown(q) == pc[q] \in {"respond", "done", "panicked"}

\* Task k of query q finishes: its timed resolve returned res (outcome names
\* how), and it sends the message for res.
TaskFinish(q, k, res, outcome) ==
    /\ k \in 1..Len(task[q])
    /\ task[q][k].st = "running"
    /\ LET c == tx(q)
           msg == TaskMessage(res, task[q][k].name, Query(q).name)
           s == try_send(chan[c], bounded(resolvers_len(c)), rx[c], msg)
       IN /\ chan' = [chan EXCEPT ![c] = s.chan]
          /\ arrived' = [arrived EXCEPT ![c] =
                            IF s.sent = "Ok"
                            THEN Append(@, [msg |-> msg, from |-> <<q, k>>])
                            ELSE @]
          /\ task' = [task EXCEPT ![q][k] =
                         [@ EXCEPT !.st = "finished", !.outcome = outcome, !.sent = s.sent]]
    /\ UNCHANGED <<config, clients, workers, builder, build, resolver, request, pc, names, rx, i, lookup_result,
                   result, response, received, checked>>

\* The resolve completes with an answer before the timeout.
TaskResolved(q, k, lookup) == TaskFinish(q, k, Ok(lookup), "ok")

\* The resolve completes with an error before the timeout.
TaskFailed(q, k) == TaskFinish(q, k, Err("ResolveError"), "error")

\* The resolve has not completed after one second: the timeout's Elapsed
\* becomes ResolveErrorKind::Timeout.
TaskTimedOut(q, k) == TaskFinish(q, k, Err("Timeout"), "timeout")

\* A task still waiting for its resolve when the runtime is shut down is
\* dropped there.
TaskKilled(q, k) ==
    /\ k \in 1..Len(task[q])
    /\ task[q][k].st = "running"
    /\ RuntimeShutDown(q)
    /\ task' = [task EXCEPT ![q][k].st = "killed"]
    /\ UNCHANGED <<config, clients, workers, builder, build, resolver, request, pc, names, chan, rx, i,
                   lookup_result, result, response, arrived, received, checked>>

\* ------------------------------------------------------------------ receive loop
\* A recv that takes the newest message instead of the oldest.
recvNewest(ch) == [msg |-> ch[Len(ch)], rest |-> SubSeq(ch, 1, Len(ch) - 1)]

\* rx.recv() on a channel that holds a message: the oldest one.
recv(ch) == [msg |-> Head(ch), rest |-> Tail(ch)]

\* The loop body with the filter's verdict ignored: every answer is taken.
AcceptedUnfiltered(cfg, msg) == IsSome(msg)

\* The loop body's verdict on a message: a positive one the filter accepts.
Accepted(cfg, msg) ==
    /\ IsSome(msg)
    /\ check_response(cfg, Unwrap(msg)[3], Unwrap(msg)[2], Unwrap(msg)[1]) = "Accept"

\* A loop that waits for the message of every task before it ends.
AfterMessageWaitAll(accepted, iteration, n) ==
    IF iteration = n THEN "shutdown" ELSE "recv"

\* Where lookup goes after the message of the given iteration: Accept breaks
\* out of the loop, otherwise the loop ends with its last iteration.
AfterMessage(accepted, iteration, n) ==
    IF accepted \/ iteration = n THEN "shutdown" ELSE "recv"

\* One iteration of the receive loop; recv blocks while the channel is empty.
Recv(q) ==
    /\ pc[q] = "recv"
    /\ chan[q] # <<>>
    /\ LET r == recv(chan[q])
       IN /\ chan' = [chan EXCEPT ![q] = r.rest]
          /\ received' = [received EXCEPT ![q] = Append(@, r.msg)]
          /\ checked' = [checked EXCEPT ![q] =
                            IF IsSome(r.msg)
                            THEN Append(@, <<Unwrap(r.msg)[2], Unwrap(r.msg)[1]>>)
                            ELSE @]
          /\ pc' = [pc EXCEPT ![q] =
                       AfterMessage(Accepted(config, r.msg), i[q] + 1, resolvers_len(q))]
          /\ IF Accepted(config, r.msg)
             THEN /\ lookup_result' = [lookup_result EXCEPT ![q] = Some(Unwrap(r.msg)[1])]
                  /\ i' = i
             ELSE /\ lookup_result' = lookup_result
                  /\ i' = [i EXCEPT ![q] = @ + 1]
    /\ UNCHANGED <<config, clients, workers, builder, build, resolver, request, names, task, rx, result, response,
                   arrived>>

\* The match with ServFail for the arm without a lookup.
RequestResultOfServFail(lr) ==
    IF IsSome(lr) THEN [lookup |-> lr, code |-> "NoError"]
    ELSE [lookup |-> None, code |-> "ServFail"]

\* The match on lookup_result that ends lookup.
RequestResultOf(lr) ==
    IF IsSome(lr) THEN [lookup |-> lr, code |-> "NoError"]
    ELSE [lookup |-> None, code |-> "NXDomain"]

\* After the loop: the runtime is shut down, tx is dropped, lookup returns
\* and its receiver goes with it.
LookupReturn(q) ==
    /\ pc[q] = "shutdown"
    /\ result' = [result EXCEPT ![q] = Some(Ok(RequestResultOf(lookup_result[q])))]
    /\ rx' = [rx EXCEPT ![q] = FALSE]
    /\ chan' = [chan EXCEPT ![q] = <<>>]
    /\ pc' = [pc EXCEPT ![q] = "respond"]
    /\ UNCHANGED <<config, clients, workers, builder, build, resolver, request, names, task, i, lookup_result,
                   response, arrived, received, checked>>

\* ------------------------------------------------------------------ response
\* handle_request's match on what do_handle_request returned.
HandleResult(r) ==
    IF r.ok THEN r.val ELSE [lookup |-> None, code |-> "ServFail"]

\* A response that never carries records.
RecordsNone(res) == <<>>

\* The records of the response: those of the lookup, none without a lookup.
Records(res) ==
    IF IsSome(res.lookup) THEN Unwrap(res.lookup).records ELSE <<>>

\* Header::response_from_request.
response_from_request(req) ==
    [id |-> req.id, message_type |-> "Response", op_code |-> req.op_code,
     recursion_desired |-> req.recursion_desired,
     recursion_available |-> FALSE, response_code |-> "NoError"]

\* The message built without header.set_recursion_available(true).
BuildResponseNoRA(req, res) ==
    [header |-> [response_from_request(req) EXCEPT !.response_code = res.code],
     answers |-> Records(res)]

\* The message handle_request builds for the request and the result.
BuildResponse(req, res) ==
    [header |-> [response_from_request(req) EXCEPT
                     !.response_code = res.code,
                     !.recursion_available = TRUE],
     answers |-> Records(res)]

\* handle_request after do_handle_request returned: build and send the response.
Respond(q) ==
    /\ pc[q] = "respond"
    /\ response' = [response EXCEPT ![q] =
                       Some(BuildResponse(Query(q), HandleResult(Unwrap(result[q]))))]
    /\ pc' = [pc EXCEPT ![q] = "done"]
    /\ UNCHANGED <<config, clients, workers, builder, build, resolver, request, names, task, chan, rx, i,
                   lookup_result, result, arrived, received, checked>>

\* ------------------------------------------------------------------ specification
Next ==
    \E q \in Queries :
        \/ \E req \in AllRequests : Receive(q, req)
        \/ Refuse(q)
        \/ LookupStart(q)
        \/ SpawnTask(q)
        \/ SpawnPanic(q)
        \/ \E k \in 1..NumUpstreams :
              \/ \E lookup \in Lookups : TaskResolved(q, k, lookup)
              \/ TaskFailed(q, k)
              \/ TaskTimedOut(q, k)
              \/ TaskKilled(q, k)
        \/ Recv(q)
        \/ LookupReturn(q)
        \/ Respond(q)

Spec == Init /\ [][Next]_vars

SpecConcurrent == InitConcurrent /\ [][Next]_vars

SpecWorkers == InitWorkers /\ [][Next]_vars

\* ------------------------------------------------------ configuration texts
\* An upstream address as written in the configuration: a host part and, when
\* the text has the form host:port, the digits after the colon as a number.
Hosts == {"1.1.1.1", "dns.google"}
PortTexts == {5353, 70000}
AddressTexts == [host : Hosts, port : {None} \cup {Some(p) : p \in PortTexts}]

\* The hosts that are IP literals, and the numbers a u16 port can hold.
IsIpLiteral(host) == host = "1.1.1.1"
IsPort(p) == p \in 0..65535

\* str::parse::<SocketAddr>: an IP literal, a colon and a u16 port.
ParseSocketAddr(text) ==
    IF IsSome(text.port) /\ IsIpLiteral(text.host) /\ IsPort(Unwrap(text.port))
    THEN Ok([ip |-> text.host, port |-> Unwrap(text.port)])
    ELSE Err("AddrParseError")

\* str::parse::<IpAddr>: an IP literal and nothing else.
ParseIpAddr(text) ==
    IF text.port = None /\ IsIpLiteral(text.host)
    THEN Ok(text.host)
    ELSE Err("AddrParseError")

NetworkTypes == {"Tcp", "Udp", "Tls", "Https"}

default_portAll53(network) == 53

default_port(network) ==
    CASE network \in {"Tcp", "Udp"} -> 53
      [] network = "Tls" -> 853
      [] network = "Https" -> 443

\* UpstreamConfig as the configuration file gives it: default may be omitted.
UpstreamConfigs ==
    [ address : AddressTexts,
      network : NetworkTypes,
      proxy : {None, Some("socks5://127.0.0.1:1080")},
      tls_host : {None, Some("dns.google")},
      default : {None, Some(TRUE), Some(FALSE)} ]

default_default == TRUE

\* The default field after deserialization (serde default).
DefaultFlagAsGiven(uc) == IsSome(uc.default) /\ Unwrap(uc.default)

DefaultFlag(uc) == IF IsSome(uc.default) THEN Unwrap(uc.default) ELSE default_default

\* The address of an upstream: the text as a socket address, else as a bare
\* IP with the network's default port, else an error carrying the text.
BuildAddressNoDefaultPort(uc) ==
    LET address == ParseSocketAddr(uc.address)
    IN  IF address.ok THEN address ELSE Err([kind |-> "InvalidAddress", address |-> uc.address])

BuildAddress(uc) ==
    LET address == ParseSocketAddr(uc.address)
        ip == ParseIpAddr(uc.address)
    IN  IF address.ok THEN address
        ELSE IF ip.ok THEN Ok([ip |-> ip.val, port |-> default_port(uc.network)])
        ELSE Err([kind |-> "InvalidAddress", address |-> uc.address])

\* ok_or(ConfigError::NoTlsHost)
TlsHostOrEmpty(uc) == IF IsSome(uc.tls_host) THEN Ok(Unwrap(uc.tls_host)) ELSE Ok("")

TlsHost(uc) == IF IsSome(uc.tls_host) THEN Ok(Unwrap(uc.tls_host)) ELSE Err([kind |-> "NoTlsHost"])

\* UpstreamConfig::build
UpstreamConfigBuild(uc) ==
    LET address == BuildAddress(uc)
        tls_host == TlsHost(uc)
    IN  IF ~address.ok THEN address
        ELSE CASE uc.network = "Tcp" ->
                    Ok([kind |-> "TcpUpstream", address |-> address.val, proxy |-> uc.proxy])
               [] uc.network = "Udp" ->
                    Ok([kind |-> "UdpUpstream", address |-> address.val])
               [] uc.network = "Tls" ->
                    IF ~tls_host.ok THEN tls_host
                    ELSE Ok([kind |-> "TlsUpstream", address |-> address.val,
                             tls_host |-> tls_host.val, proxy |-> uc.proxy])
               [] uc.network = "Https" ->
                    IF ~tls_host.ok THEN tls_host
                    ELSE Ok([kind |-> "HttpsUpstream", address |-> address.val,
                             tls_host |-> tls_host.val, proxy |-> uc.proxy])

\* A line of a domain list is a sequence of tokens: the prefixes the code
\* looks for, white space, and words that hold none of them.
MaxLines == 2

\* The line DomainsConf::build puts first into suffix_set.
Marker == <<"// BEGIN ICANN DOMAINS">>

Lines ==
    { <<>>, <<" ">>, <<"#", "ads">>, <<" ", "#", "ads">>,
      <<"a.com">>, <<" ", "b.org", " ">>,
      <<"regexp:", "^ads">>, <<"regexp:", "regexp:", "^ads">>,
      <<"full:", "a.com">>, <<"full:", "full:", "a.com">>,
      <<".", "a.com">>, <<".", ".", "a.com">>,
      <<"full:", ".", "b.org">>, <<".", "full:", "b.org">>,
      <<"a.com", ".", "b.org">> }

RECURSIVE LineLists(_)
LineLists(n) ==
    IF n = 0 THEN {<<>>}
    ELSE LineLists(n - 1) \cup {Append(l, line) : l \in {m \in LineLists(n - 1) : Len(m) = n - 1}, line \in Lines}

\* The files a configuration may name, by path, with their lines.
FileSystem ==
    "ads.txt" :> << <<"#", "ads">>, <<" ", "full:", "a.com", " ">>, <<>>, <<" ", "regexp:", "^ads">> >>

DomainsConfs ==
    [ files : {None, Some(<<"ads.txt">>), Some(<<"missing.txt">>)},
      list : {None} \cup {Some(l) : l \in LineLists(MaxLines)} ]

starts_with(line, pat) == line # <<>> /\ Head(line) = pat

\* str::trim_start_matches: every repeated leading pat is removed.
trim_start_once(line, pat) == IF starts_with(line, pat) THEN Tail(line) ELSE line

RECURSIVE trim_start_matches(_, _)
trim_start_matches(line, pat) ==
    IF starts_with(line, pat) THEN trim_start_matches(Tail(line), pat) ELSE line

RECURSIVE trim_end(_)
trim_end(line) ==
    IF line # <<>> /\ line[Len(line)] = " "
    THEN trim_end(SubSeq(line, 1, Len(line) - 1))
    ELSE line

\* str::trim
trim(line) == trim_end(trim_start_matches(line, " "))

\* The closure push of DomainsConf::build.
push(sets, line) ==
    IF line = <<>> \/ starts_with(line, "#") THEN sets
    ELSE IF starts_with(line, "regexp:")
         THEN [sets EXCEPT !.regex_set = Append(@, trim_start_matches(line, "regexp:"))]
         ELSE [sets EXCEPT !.suffix_set =
                   Append(@, trim_start_matches(trim_start_matches(line, "full:"), "."))]

RECURSIVE PushAll(_, _)
PushAll(sets, lines) ==
    IF lines = <<>> THEN sets ELSE PushAll(push(sets, Head(lines)), Tail(lines))

\* The lines of the named files, one file after the other, each line trimmed.
RECURSIVE FileLines(_)
FileLines(files) ==
    IF files = <<>> THEN <<>>
    ELSE [k \in DOMAIN FileSystem[Head(files)] |-> trim(FileSystem[Head(files)][k])]
             \o FileLines(Tail(files))

\* File::open(file).unwrap() succeeds for every named file.
FilesOpen(conf) ==
    IsSome(conf.files) => \A k \in DOMAIN Unwrap(conf.files) : Unwrap(conf.files)[k] \in DOMAIN FileSystem

\* DomainsConf::build, for a configuration whose files open.
DomainsConfBuild(conf) ==
    LET start == [regex_set |-> <<>>, suffix_set |-> <<Marker>>]
        afterFiles == IF IsSome(conf.files) THEN PushAll(start, FileLines(Unwrap(conf.files))) ELSE start
        afterList == IF IsSome(conf.list) THEN PushAll(afterFiles, Unwrap(conf.list)) ELSE afterFiles
    IN  Ok(afterList)

\* An entry of a range list: an address and, when the text has the form
\* address/len, the number after the slash.  str::parse::<IpNet>.
RangeTexts == {[host |-> "10.0.0.0", len |-> Some(8)], [host |-> "10.0.0.0", len |-> None]}
ParseIpNet(text) ==
    IF IsSome(text.len) /\ Unwrap(text.len) \in 0..32
    THEN Ok([addr |-> text.host, len |-> Unwrap(text.len)])
    ELSE Err("AddrParseError")

\* IpRangeConf::read_to for a configuration without files: Ok with the
\* networks of the list, or the first parse error.
read_to(conf) ==
    LET list == IF IsSome(conf.list) THEN Unwrap(conf.list) ELSE <<>>
    IN  IF \A k \in DOMAIN list : ParseIpNet(list[k]).ok
        THEN Ok({ParseIpNet(list[k]).val : k \in DOMAIN list})
        ELSE Err("AddrParseError")

\* RecordType::from_str
RecordTypeTexts == {"A", "AAAA", "BOGUS"}
RecordTypeFromStr(t) == IF t \in {"A", "AAAA"} THEN Ok([record_type |-> t]) ELSE Err("ParseError")

\* RequestRuleConfig::build, when every type parses (else the unwrap panics).
TypesParse(rc) ==
    IsSome(rc.types) => \A k \in DOMAIN Unwrap(rc.types) : RecordTypeFromStr(Unwrap(rc.types)[k]).ok

RequestRuleConfigBuild(rc) ==
    Ok([ domains |-> rc.domains,
         types |-> IF IsSome(rc.types)
                   THEN Some([k \in DOMAIN Unwrap(rc.types) |-> RecordTypeFromStr(Unwrap(rc.types)[k]).val])
                   ELSE None,
         upstreams |-> rc.upstreams ])

\* ---------------------------------------------------------- ConfigBuilder
EmptyMap == [k \in {} |-> None]
unwrap_or_default(o, default) == IF IsSome(o) THEN Unwrap(o) ELSE default

\* An upstream that builds and is default, and one that builds and is not.
GoodUpstream ==
    [address |-> [host |-> "1.1.1.1", port |-> None], network |-> "Udp",
     proxy |-> None, tls_host |-> None, default |-> None]
SecondUpstreams ==
    { GoodUpstream,
      [GoodUpstream EXCEPT !.default = Some(FALSE)],
      [GoodUpstream EXCEPT !.network = "Tls"],
      [GoodUpstream EXCEPT !.network = "Https", !.tls_host = Some("dns.google"),
                           !.default = Some(FALSE)],
      [GoodUpstream EXCEPT !.address = [host |-> "dns.google", port |-> None]] }

RequestRuleConfigs ==
    [ domains : {None, Some(<<"ads">>)},
      types : {None, Some(<<"A">>), Some(<<"A", "BOGUS">>)},
      upstreams : {<<>>, <<"u1">>, <<"ghost">>, <<"u2", "ghost">>} ]

RangeConfs == {[files |-> None, list |-> l] : l \in {None} \cup {Some(<<t>>) : t \in RangeTexts}}

\* The configurations the build is checked on: every upstream alone, every
\* upstream beside a second one, and one default upstream with every domain
\* list, range list or request rule.
PlainBuilder ==
    [upstreams |-> ("u1" :> GoodUpstream), domains |-> None, ranges |-> None, requests |-> None]

Builders ==
    {[PlainBuilder EXCEPT !.upstreams = EmptyMap]}
    \cup {[PlainBuilder EXCEPT !.upstreams = ("u1" :> a)] : a \in UpstreamConfigs}
    \cup {[PlainBuilder EXCEPT !.upstreams = ("u1" :> a) @@ ("u2" :> b)] :
             a \in UpstreamConfigs, b \in SecondUpstreams}
    \cup {[PlainBuilder EXCEPT !.domains = Some("ads" :> d)] : d \in DomainsConfs}
    \cup {[PlainBuilder EXCEPT !.ranges = Some("cn" :> r)] : r \in RangeConfs}
    \cup {[PlainBuilder EXCEPT !.requests = Some(<<r>>)] : r \in RequestRuleConfigs}
    \cup {[PlainBuilder EXCEPT !.upstreams = ("u1" :> GoodUpstream) @@ ("u2" :> b),
                               !.requests = Some(<<r>>)] :
             b \in SecondUpstreams, r \in RequestRuleConfigs}

\* ConfigBuilder::build is called on builder.
StartBuild(b) ==
    [ pc |-> "upstreams", pending |-> DOMAIN b.upstreams, default_upstreams |-> <<>>,
      upstreams |-> EmptyMap, domains |-> EmptyMap, ranges |-> EmptyMap,
      result |-> None ]

InitConfig ==
    /\ builder \in Builders
    /\ build = StartBuild(builder)
    /\ resolver = EmptyMap
    /\ config \in ConcurrentConfigs
    /\ workers = NumQueries
    /\ InitHandler
    /\ clients = [q \in Queries |-> {}]

HandlerVars ==
    <<config, clients, workers, request, pc, names, task, chan, rx, i, lookup_result,
      result, response, arrived, received, checked>>

\* One step of the iterator over self.upstreams: the closure is applied to
\* the next entry (a HashMap yields its entries in any order), and collect
\* stops at the first Err, which `?` returns.
BuildUpstream(key) ==
    /\ build.pc = "upstreams"
    /\ key \in build.pending
    /\ LET uc == builder.upstreams[key]
           defaults == IF DefaultFlag(uc)
                       THEN Append(build.default_upstreams, key)
                       ELSE build.default_upstreams
           upstream == UpstreamConfigBuild(uc)
       IN  build' =
             IF upstream.ok
             THEN [build EXCEPT !.pending = @ \ {key},
                                !.default_upstreams = defaults,
                                !.upstreams = @ @@ (key :> upstream.val)]
             ELSE [build EXCEPT !.pc = "done", !.default_upstreams = defaults,
                                !.result = Some(Err(upstream.val))]
    /\ UNCHANGED <<builder, resolver, HandlerVars>>

\* The iterator is exhausted: default_upstreams.is_empty() is tested.
CheckDefault ==
    /\ build.pc = "upstreams"
    /\ build.pending = {}
    /\ build' =
         IF build.default_upstreams = <<>>
         THEN [build EXCEPT !.pc = "done", !.result = Some(Err([kind |-> "NoUpstream"]))]
         ELSE [build EXCEPT !.pc = "domains"]
    /\ UNCHANGED <<builder, resolver, HandlerVars>>

\* Every domain list is built; a file that does not open panics.
BuildDomains ==
    /\ build.pc = "domains"
    /\ LET confs == unwrap_or_default(builder.domains, EmptyMap)
       IN  build' =
             IF \A key \in DOMAIN confs : FilesOpen(confs[key])
             THEN [build EXCEPT !.pc = "ranges",
                                !.domains = [key \in DOMAIN confs |-> DomainsConfBuild(confs[key]).val]]
             ELSE [build EXCEPT !.pc = "panicked"]
    /\ UNCHANGED <<builder, resolver, HandlerVars>>

\* Every range list is read; a parse error panics at the unwrap.
BuildRanges ==
    /\ build.pc = "ranges"
    /\ LET confs == unwrap_or_default(builder.ranges, EmptyMap)
       IN  build' =
             IF \A key \in DOMAIN confs : read_to(confs[key]).ok
             THEN [build EXCEPT !.pc = "requests",
                                !.ranges = [key \in DOMAIN confs |-> read_to(confs[key]).val]]
             ELSE [build EXCEPT !.pc = "panicked"]
    /\ UNCHANGED <<builder, resolver, HandlerVars>>

\* Every request rule is built (a type that does not parse panics) and the
\* Config is returned.
BuildRequests ==
    /\ build.pc = "requests"
    /\ LET confs == unwrap_or_default(builder.requests, <<>>)
       IN  build' =
             IF \A k \in DOMAIN confs : TypesParse(confs[k])
             THEN [build EXCEPT
                     !.pc = "done",
                     !.result = Some(Ok(
                         [ default_upstreams |-> build.default_upstreams,
                           upstreams |-> build.upstreams,
                           domains |-> build.domains,
                           ranges |-> build.ranges,
                           request_rules |->
                               [k \in DOMAIN confs |-> RequestRuleConfigBuild(confs[k]).val] ]))]
             ELSE [build EXCEPT !.pc = "panicked"]
    /\ UNCHANGED <<builder, resolver, HandlerVars>>

NextConfig ==
    \/ \E key \in {"u1", "u2"} : BuildUpstream(key)
    \/ CheckDefault
    \/ BuildDomains
    \/ BuildRanges
    \/ BuildRequests

SpecConfig == InitConfig /\ [][NextConfig]_vars

\* ----------------------------------------------------------------- resolver
\* str::parse of a proxy text: a URI whose scheme names the handshake.
ProxyTexts == {"socks5://127.0.0.1:1080"}
ParseProxy(text) ==
    IF text \in ProxyTexts
    THEN Ok([scheme |-> "socks5", server |-> "127.0.0.1:1080"])
    ELSE Err("ParseError")

\* The Upstream as resolver.rs destructures it: address is a list and every
\* variant has a proxy field.  config.rs gives UdpUpstream no proxy field, so
\* the proxy resolver.rs binds for it is udp_proxy, a value the sources leave
\* open.
AsResolverUpstream(upstream, udp_proxy) ==
    [ kind |-> upstream.kind,
      address |-> <<upstream.address>>,
      tls_host |-> IF upstream.kind \in {"TlsUpstream", "HttpsUpstream"}
                   THEN Some(upstream.tls_host) ELSE None,
      proxy |-> IF upstream.kind = "UdpUpstream" THEN udp_proxy ELSE upstream.proxy ]

Protocol(kind) ==
    CASE kind = "UdpUpstream" -> "Udp"
      [] kind = "TcpUpstream" -> "Tcp"
      [] kind = "TlsUpstream" -> "Tls"
      [] kind = "HttpsUpstream" -> "Https"

\* From<(&Upstream, &ResolverOpts)> for RecursiveResolver, for a proxy text
\* that parses: one name server per address, and the connection provider
\* with the parsed proxy.
RecursiveResolverFrom(upstream) ==
    [ name_servers |->
          [k \in DOMAIN upstream.address |->
              [ socket_addr |-> upstream.address[k],
                protocol |-> Protocol(upstream.kind),
                tls_dns_name |-> upstream.tls_host ]],
      provider |->
          [proxy |-> IF IsSome(upstream.proxy)
                     THEN Some(ParseProxy(Unwrap(upstream.proxy)).val)
                     ELSE None] ]

\* The resolver of upstream key of the built Config is made; a proxy text
\* that does not parse panics at the unwrap.
NewResolver(key, udp_proxy) ==
    /\ build.pc = "done"
    /\ Unwrap(build.result).ok
    /\ key \in DOMAIN Unwrap(build.result).val.upstreams
    /\ key \notin DOMAIN resolver
    /\ udp_proxy \in {None, builder.upstreams[key].proxy}
    /\ LET upstream == AsResolverUpstream(Unwrap(build.result).val.upstreams[key], udp_proxy)
       IN  resolver' =
             IF IsSome(upstream.proxy) => ParseProxy(Unwrap(upstream.proxy)).ok
             THEN resolver @@ (key :> RecursiveResolverFrom(upstream))
             ELSE resolver @@ (key :> [panicked |-> TRUE])
    /\ UNCHANGED <<builder, build, HandlerVars>>

NextResolver ==
    \/ NextConfig
    \/ \E key \in {"u1", "u2"} :
          \E udp_proxy \in {None} \cup {Some(text) : text \in ProxyTexts} :
             NewResolver(key, udp_proxy)

SpecResolver == InitConfig /\ [][NextResolver]_vars

\* ------------------------------------------------------------------ properties
\* Request q is a query: its op code is Query and its message type is Query.
WellFormed(q) ==
    Query(q).op_code = "Query" /\ Query(q).message_type = "Query"

\* The messages delivered onto q's channel, in arrival order.
Delivered(q) == [j \in 1..Len(arrived[q]) |-> arrived[q][j].msg]

\* The filter's verdict on a message, asked of filter::check_response itself.
FilterAccepts(msg) ==
    /\ IsSome(msg)
    /\ check_response(config, Unwrap(msg)[3], Unwrap(msg)[2], Unwrap(msg)[1]) = "Accept"

\* Position of the first message of msgs the filter accepts, 0 if there is none.
FirstAccepted(msgs) == FirstTrue([j \in 1..Len(msgs) |-> FilterAccepts(msgs[j])], 1)

\* The positive messages of msgs as (name, lookup) pairs, in order.
Positives(msgs) ==
    LET F[j \in 0..Len(msgs)] ==
            IF j = 0 THEN <<>>
            ELSE IF IsSome(msgs[j])
                 THEN Append(F[j - 1], <<Unwrap(msgs[j])[2], Unwrap(msgs[j])[1]>>)
                 ELSE F[j - 1]
    IN F[Len(msgs)]

IsPrefix(s, t) == Len(s) <= Len(t) /\ s = SubSeq(t, 1, Len(s))

\* lookup of query q has returned (to do_handle_request, hence to handle_request).
LookupReturned(q) ==
    /\ pc[q] \in {"respond", "done"}
    /\ WellFormed(q)

\* The Option<Lookup> in the RequestResult lookup returned.
ReturnedLookup(q) == Unwrap(result[q]).val.lookup

\* C1: for a query with n >= 1 selected upstreams, whatever the arrival order,
\* lookup returns an answer iff some upstream delivered an answer the filter
\* accepts; the returned answer is one of the accepted delivered answers, and
\* there is no answer in the result when none was accepted.
C1_AnswerIffAccepted ==
    \A q \in Queries :
        (LookupReturned(q) /\ resolvers_len(q) >= 1) =>
            LET acc == {j \in 1..Len(arrived[q]) : FilterAccepts(arrived[q][j].msg)}
            IN /\ IsSome(ReturnedLookup(q)) <=> acc # {}
               /\ IsSome(ReturnedLookup(q)) =>
                      \E j \in acc :
                          Unwrap(arrived[q][j].msg)[1] = Unwrap(ReturnedLookup(q))

\* C1 witness: the first answer to arrive was dropped by the filter and the
\* answer that arrived after it was accepted and returned.
C1_Witness ==
    \E q \in Queries :
        /\ LookupReturned(q)
        /\ Len(arrived[q]) >= 2
        /\ IsSome(arrived[q][1].msg) /\ ~FilterAccepts(arrived[q][1].msg)
        /\ FilterAccepts(arrived[q][2].msg)
        /\ ReturnedLookup(q) = Some(Unwrap(arrived[q][2].msg)[1])

\* C2: the loop takes messages in channel arrival order; the answer returned
\* is the first accepted one in that order, and nothing that arrived after it
\* is received or passed to the filter.
C2_ArrivalOrder ==
    \A q \in Queries :
        /\ IsPrefix(received[q], Delivered(q))
        /\ checked[q] = Positives(received[q])
        /\ IsSome(lookup_result[q]) =>
               /\ FirstAccepted(Delivered(q)) = Len(received[q])
               /\ lookup_result[q] = Some(Unwrap(received[q][Len(received[q])])[1])
        /\ LookupReturned(q) /\ FirstAccepted(Delivered(q)) # 0 =>
               /\ Len(received[q]) = FirstAccepted(Delivered(q))
               /\ ReturnedLookup(q) =
                      Some(Unwrap(Delivered(q)[FirstAccepted(Delivered(q))])[1])

\* C2 witness: two upstreams delivered acceptable answers, the one the router
\* listed second arrived first and was returned; the other was never received.
C2_Witness ==
    \E q \in Queries :
        /\ LookupReturned(q)
        /\ Len(arrived[q]) = 2
        /\ arrived[q][1].from[2] = 2 /\ arrived[q][2].from[2] = 1
        /\ FilterAccepts(arrived[q][1].msg) /\ FilterAccepts(arrived[q][2].msg)
        /\ Unwrap(arrived[q][1].msg)[1] # Unwrap(arrived[q][2].msg)[1]
        /\ ReturnedLookup(q) = Some(Unwrap(arrived[q][1].msg)[1])
        /\ Len(received[q]) = 1

\* The header and the records of the response sent for q.
Header(q) == Unwrap(response[q]).header
Answers(q) == Unwrap(response[q]).answers

\* C4: a request whose op code or message type is not Query is answered
\* Refused with no records, and nothing of lookup happens for it: no upstream
\* is selected, no channel exists, no task is spawned, nothing is resolved.
C4_NonQueryRefused ==
    \A q \in Queries :
        (IsSome(request[q]) /\ ~WellFormed(q)) =>
            /\ pc[q] \in {"do_handle_request", "respond", "done"}
            /\ names[q] = <<>> /\ task[q] = <<>> /\ ~rx[q]
            /\ arrived[q] = <<>> /\ received[q] = <<>> /\ checked[q] = <<>>
            /\ IsSome(result[q]) =>
                   Unwrap(result[q]) = Ok([lookup |-> None, code |-> "Refused"])
            /\ pc[q] = "done" =>
                   Header(q).response_code = "Refused" /\ Answers(q) = <<>>

\* C4 witness: an Update request has been answered Refused.
C4_Witness ==
    \E q \in Queries :
        /\ pc[q] = "done"
        /\ Query(q).op_code = "Update" /\ Query(q).message_type = "Query"
        /\ Header(q).response_code = "Refused"

\* C5: for a well-formed query the response is NoError exactly when the
\* dispatch produced an accepted answer, and then carries exactly that answer's
\* records; it is NXDomain without records exactly when the dispatch produced
\* no answer.
C5_ResponseCode ==
    \A q \in Queries :
        (pc[q] = "done" /\ WellFormed(q)) =>
            /\ Header(q).response_code = "NoError" <=> IsSome(lookup_result[q])
            /\ IsSome(lookup_result[q]) =>
                   /\ Answers(q) = Unwrap(lookup_result[q]).records
                   /\ \E j \in 1..Len(received[q]) :
                          /\ FilterAccepts(received[q][j])
                          /\ Unwrap(received[q][j])[1] = Unwrap(lookup_result[q])
            /\ (Header(q).response_code = "NXDomain" /\ Answers(q) = <<>>)
                   <=> ~IsSome(lookup_result[q])

\* C5 witness: a query was answered NoError with the records of an accepted
\* answer, after another answer had been dropped.
C5_Witness ==
    \E q \in Queries :
        /\ pc[q] = "done"
        /\ Header(q).response_code = "NoError"
        /\ Answers(q) = <<"8.8.8.8">>
        /\ Len(received[q]) = 2

\* The task that sent the j-th message delivered onto q's channel.
Sender(q, j) == task[arrived[q][j].from[1]][arrived[q][j].from[2]]

\* C6: a failed resolve (error or timeout) becomes a negative marker and never
\* reaches the client: no response is ServFail, a well-formed query is
\* answered NoError or NXDomain, and an accepted answer of another upstream is
\* still returned.
C6_FailureIsNegativeMarker ==
    \A q \in Queries :
        /\ \A j \in 1..Len(arrived[q]) :
               Sender(q, j).outcome \in {"error", "timeout"} => arrived[q][j].msg = None
        /\ IsSome(response[q]) => Header(q).response_code # "ServFail"
        /\ (pc[q] = "done" /\ WellFormed(q)) =>
               /\ Header(q).response_code \in {"NoError", "NXDomain"}
               /\ (\E j \in 1..Len(arrived[q]) : FilterAccepts(arrived[q][j].msg)) =>
                      /\ Header(q).response_code = "NoError"
                      /\ Answers(q) # <<>>

\* C6 witness: one upstream's resolve timed out and its marker arrived first;
\* the other upstream's answer was accepted and sent to the client.
C6_Witness ==
    \E q \in Queries :
        /\ pc[q] = "done"
        /\ Len(arrived[q]) = 2
        /\ Sender(q, 1).outcome = "timeout" /\ arrived[q][1].msg = None
        /\ FilterAccepts(arrived[q][2].msg)
        /\ Header(q).response_code = "NoError"
        /\ Answers(q) = Unwrap(arrived[q][2].msg)[1].records

\* lookup has selected the upstreams of q and found none.
NoneSelected(q) ==
    /\ IsSome(request[q]) /\ WellFormed(q)
    /\ pc[q] # "do_handle_request"
    /\ resolvers_len(q) = 0

\* C8 as stated: with zero selected upstreams lookup spawns no task and does
\* not wait on the channel, and the client gets ServFail.
C8_ZeroUpstreamsServFail ==
    \A q \in Queries :
        NoneSelected(q) =>
            /\ pc[q] \in {"shutdown", "respond", "done"}
            /\ task[q] = <<>> /\ received[q] = <<>>
            /\ ~IsSome(lookup_result[q])
            /\ pc[q] = "done" => Header(q).response_code = "ServFail"

\* C8 amended: with zero selected upstreams lookup spawns no task and does not
\* wait on the channel; it returns no answer, which the caller answers with
\* NXDomain and no records.
C8_ZeroUpstreamsNXDomain ==
    \A q \in Queries :
        NoneSelected(q) =>
            /\ pc[q] \in {"shutdown", "respond", "done"}
            /\ task[q] = <<>> /\ received[q] = <<>>
            /\ ~IsSome(lookup_result[q])
            /\ IsSome(result[q]) =>
                   Unwrap(result[q]) = Ok([lookup |-> None, code |-> "NXDomain"])
            /\ pc[q] = "done" =>
                   Header(q).response_code = "NXDomain" /\ Answers(q) = <<>>

\* C8 witness: a query for which the router selected nothing has been answered.
C8_Witness ==
    \E q \in Queries : NoneSelected(q) /\ pc[q] = "done"

\* C9: every response has recursion_available set and a header derived from
\* the request's (same id, op code and rd bit, message type Response), and it
\* carries records only when its code is NoError.
C9_ResponseHeader ==
    \A q \in Queries :
        IsSome(response[q]) =>
            /\ Header(q).recursion_available = TRUE
            /\ Header(q).id = Query(q).id
            /\ Header(q).op_code = Query(q).op_code
            /\ Header(q).recursion_desired = Query(q).recursion_desired
            /\ Header(q).message_type = "Response"
            /\ Header(q).response_code \in {"Refused", "NoError", "NXDomain", "ServFail"}
            /\ Answers(q) # <<>> => Header(q).response_code = "NoError"

\* C9 witness: a Refused response to a request with id 8 and the rd bit clear.
C9_Witness ==
    \E q \in Queries :
        /\ IsSome(response[q])
        /\ Query(q).id = 8 /\ ~Query(q).recursion_desired
        /\ Header(q).response_code = "Refused"
        /\ Header(q).recursion_available

\* What lookup of q returns when only q's own upstream messages, in their
\* arrival order, decide it.
OutcomeAlone(q) ==
    LET f == FirstAccepted(Delivered(q))
    IN IF f = 0 THEN [lookup |-> None, code |-> "NXDomain"]
       ELSE [lookup |-> Some(Unwrap(Delivered(q)[f])[1]), code |-> "NoError"]

\* C10: dispatch keeps no state across requests.  With queries in flight
\* together, every message on q's channel was sent by a task of q, q's loop
\* receives only from that channel, and what q returns and answers is what
\* its own upstream messages decide, whatever the other queries do or suffer.
C10_NoCrossRequestState ==
    \A q \in Queries :
        /\ \A j \in 1..Len(arrived[q]) : arrived[q][j].from[1] = q
        /\ IsPrefix(received[q], Delivered(q))
        /\ \A k \in 1..Len(task[q]) : task[q][k].sent \in {"none", "Ok", "Disconnected"}
        /\ LookupReturned(q) => Unwrap(result[q]) = Ok(OutcomeAlone(q))
        /\ (pc[q] = "done" /\ WellFormed(q)) =>
               /\ Header(q).response_code = OutcomeAlone(q).code
               /\ Answers(q) = IF IsSome(OutcomeAlone(q).lookup)
                               THEN Unwrap(OutcomeAlone(q).lookup).records
                               ELSE <<>>

\* C10 witness: two identical queries were handled together and answered
\* differently, one with an upstream's answer, one (all its resolves having
\* failed) with NXDomain; a third party's failure changed neither.
C10_Witness ==
    \E q1, q2 \in Queries :
        /\ q1 # q2
        /\ pc[q1] = "done" /\ pc[q2] = "done"
        /\ Query(q1) = Query(q2)
        /\ Header(q1).response_code = "NoError"
        /\ Header(q2).response_code = "NXDomain"
        /\ Len(arrived[q2]) = resolvers_len(q2)
        /\ \A j \in 1..Len(arrived[q2]) : arrived[q2][j].msg = None

\* A step of handle_request for q, and a step of one of q's tasks.
HandlerStep(q) ==
    \/ Refuse(q) \/ LookupStart(q) \/ SpawnTask(q) \/ SpawnPanic(q)
    \/ Recv(q) \/ LookupReturn(q) \/ Respond(q)
TaskStep(q) ==
    \E k \in 1..NumUpstreams :
        \/ \E lookup \in Lookups : TaskResolved(q, k, lookup)
        \/ TaskFailed(q, k) \/ TaskTimedOut(q, k) \/ TaskKilled(q, k)

\* Request q was received and neither its handler nor its tasks can take
\* another step: whatever was to happen for q has happened.
Halted(q) == IsSome(request[q]) /\ ~ENABLED (HandlerStep(q) \/ TaskStep(q))

\* The handler and the tasks of every request keep being scheduled: the
\* server's runtime polls handle_request, the runtime of lookup polls its
\* tasks and fires their timeouts, and its shutdown drops them.
FairSpec ==
    Spec /\ \A q \in Queries : WF_vars(HandlerStep(q)) /\ WF_vars(TaskStep(q))

\* C3: dispatch always terminates.  Once nothing more can happen for a
\* request, every spawned task has put its message on the channel, the
\* receive loop has ended and the client has its response; with one selected
\* upstream that never responded (its task timed out) the response is NXDomain.
C3_DispatchTerminates ==
    \A q \in Queries :
        Halted(q) =>
            /\ \A k \in 1..Len(task[q]) :
                   task[q][k].st = "finished" /\ task[q][k].sent = "Ok"
            /\ pc[q] = "done" /\ IsSome(response[q])
            /\ (WellFormed(q) /\ resolvers_len(q) = 1 /\ Len(task[q]) = 1
                    /\ task[q][1].outcome = "timeout") =>
                   Header(q).response_code = "NXDomain"

\* handle_request of q failed internally: do_handle_request returned Err, or
\* lookup panicked.
FailedInternally(q) ==
    \/ pc[q] = "panicked"
    \/ IsSome(result[q]) /\ ~Unwrap(result[q]).ok

\* C7: when handling a query fails internally (an error, or a panic inside
\* dispatch) the client receives ServFail with no records: once nothing more
\* can happen for such a request, that response has been sent.
C7_InternalFailureServFail ==
    \A q \in Queries :
        (FailedInternally(q) /\ Halted(q)) =>
            /\ IsSome(response[q])
            /\ Header(q).response_code = "ServFail"
            /\ Answers(q) = <<>>

\* The queries blocked in the receive loop on an empty channel: waiting for
\* slow upstreams.
Waiting == {q \in Queries : pc[q] = "recv" /\ chan[q] = <<>>}

\* C11: the wait of the receive loop is a suspension point that occupies no
\* worker of the server's runtime: when as many queries as there are workers
\* wait for slow upstreams, a further client request can still be taken up.
C11_WaitFreesWorker ==
    \A q \in Queries :
        (pc[q] = "idle" /\ clients[q] # {} /\ Cardinality(Waiting) = workers) =>
            ENABLED (\E req \in AllRequests : Receive(q, req))

\* ConfigBuilder::build has returned Ok(Config), or Err of the given kind.
Returned == build.pc = "done"
Built == Returned /\ Unwrap(build.result).ok
BuiltConfig == Unwrap(build.result).val
Failed(kind) == Returned /\ ~Unwrap(build.result).ok /\ Unwrap(build.result).val.kind = kind

Range(seq) == {seq[k] : k \in DOMAIN seq}

\* The upstreams of the configuration whose default is true or omitted.
MarkedDefault ==
    {key \in DOMAIN builder.upstreams : builder.upstreams[key].default \in {None, Some(TRUE)}}

\* The address text is an IP literal, alone or with a port a u16 holds.
ValidAddress(text) ==
    text.host = "1.1.1.1" /\ (IsSome(text.port) => Unwrap(text.port) < 65536)

\* The upstream has what its network needs: a valid address and, for tls and
\* https, a tls-host.
Buildable(uc) ==
    ValidAddress(uc.address) /\ (uc.network \in {"Tls", "Https"} => IsSome(uc.tls_host))

\* C12: build returns a Config only if some upstream is default (true or
\* omitted); it returns NoUpstream when every upstream builds and none is
\* default, and only when none is default; in a returned Config
\* default_upstreams is non-empty and holds exactly the default upstreams.
C12_DefaultUpstreams ==
    /\ Built =>
         /\ MarkedDefault # {}
         /\ BuiltConfig.default_upstreams # <<>>
         /\ Range(BuiltConfig.default_upstreams) = MarkedDefault
         /\ Len(BuiltConfig.default_upstreams) = Cardinality(MarkedDefault)
    /\ ((\A key \in DOMAIN builder.upstreams : Buildable(builder.upstreams[key]))
            /\ MarkedDefault = {}) =>
         /\ build.pc \in {"upstreams", "done"}
         /\ Returned => Failed("NoUpstream")
    /\ Failed("NoUpstream") => MarkedDefault = {}

\* A Config built from one upstream whose default is omitted and one whose
\* default is false.
C12_Witness ==
    /\ Built
    /\ \E key \in DOMAIN builder.upstreams : builder.upstreams[key].default = None
    /\ \E key \in DOMAIN builder.upstreams : builder.upstreams[key].default = Some(FALSE)
    /\ Len(BuiltConfig.default_upstreams) = 1

BuilderKeys == DOMAIN builder.upstreams
NeedsTlsHost(uc) == uc.network \in {"Tls", "Https"}

\* C13: a tls or https upstream with a valid address and no tls-host makes
\* the build fail with NoTlsHost (no Config is produced); NoTlsHost is never
\* due to a udp or tcp upstream; a TlsUpstream or HttpsUpstream of a built
\* Config carries the configured tls-host.
C13_TlsHostRequired ==
    /\ (\E key \in BuilderKeys :
            /\ NeedsTlsHost(builder.upstreams[key])
            /\ builder.upstreams[key].tls_host = None) =>
         /\ ~Built
         /\ build.pc \in {"upstreams", "done"}
         /\ (Returned /\ \A key \in BuilderKeys : ValidAddress(builder.upstreams[key].address)) =>
                Failed("NoTlsHost")
    /\ Failed("NoTlsHost") =>
         \E key \in BuilderKeys :
            NeedsTlsHost(builder.upstreams[key]) /\ builder.upstreams[key].tls_host = None
    /\ Built =>
         \A key \in BuilderKeys :
            LET uc == builder.upstreams[key]
                up == BuiltConfig.upstreams[key]
            IN  IF NeedsTlsHost(uc)
                THEN /\ up.kind = (IF uc.network = "Tls" THEN "TlsUpstream" ELSE "HttpsUpstream")
                     /\ IsSome(uc.tls_host)
                     /\ up.tls_host = Unwrap(uc.tls_host)
                ELSE up.kind = (IF uc.network = "Tcp" THEN "TcpUpstream" ELSE "UdpUpstream")

\* The build failed with NoTlsHost beside a udp upstream that has no
\* tls-host either.
C13_Witness ==
    /\ Failed("NoTlsHost")
    /\ \E key \in BuilderKeys :
          builder.upstreams[key].network = "Udp" /\ builder.upstreams[key].tls_host = None
    /\ \E key \in BuilderKeys :
          /\ builder.upstreams[key].network = "Https"
          /\ ValidAddress(builder.upstreams[key].address)

\* C14: in a built Config an address written ip:port keeps that port and a
\* bare IP gets port 53 (udp, tcp), 853 (tls) or 443 (https); an address
\* that is neither makes the build fail with InvalidAddress carrying the text.
C14_AddressParsing ==
    /\ Built =>
         \A key \in BuilderKeys :
            LET uc == builder.upstreams[key]
                address == BuiltConfig.upstreams[key].address
            IN  /\ address.ip = uc.address.host
                /\ IsSome(uc.address.port) => address.port = Unwrap(uc.address.port)
                /\ (uc.address.port = None /\ uc.network \in {"Udp", "Tcp"}) => address.port = 53
                /\ (uc.address.port = None /\ uc.network = "Tls") => address.port = 853
                /\ (uc.address.port = None /\ uc.network = "Https") => address.port = 443
    /\ \A key \in BuilderKeys :
          (/\ ~ValidAddress(builder.upstreams[key].address)
           /\ \A other \in BuilderKeys \ {key} : Buildable(builder.upstreams[other])) =>
            /\ build.pc \in {"upstreams", "done"}
            /\ Returned =>
                 /\ Failed("InvalidAddress")
                 /\ Unwrap(build.result).val.address = builder.upstreams[key].address
    /\ Failed("InvalidAddress") =>
          \E key \in BuilderKeys :
             /\ ~ValidAddress(builder.upstreams[key].address)
             /\ Unwrap(build.result).val.address = builder.upstreams[key].address

\* A Config built from an https upstream given as a bare IP beside an
\* upstream given as ip:port.
C14_Witness ==
    /\ Built
    /\ \E key \in BuilderKeys :
          /\ builder.upstreams[key].network = "Https"
          /\ builder.upstreams[key].address.port = None
          /\ BuiltConfig.upstreams[key].address.port = 443
    /\ \E key \in BuilderKeys :
          /\ IsSome(builder.upstreams[key].address.port)
          /\ BuiltConfig.upstreams[key].address.port = 5353

\* The line without its leading repetitions of pat.
StripAll(line, pat) ==
    LET n == CHOOSE n \in 0..Len(line) :
                 /\ \A k \in 1..n : line[k] = pat
                 /\ n < Len(line) => line[n + 1] # pat
    IN  SubSeq(line, n + 1, Len(line))

\* The line without one leading full: or one leading dot.
StripOne(line) == IF line[1] \in {"full:", "."} THEN Tail(line) ELSE line

\* The line without the white space around it.
Trimmed(line) ==
    LET inked == {k \in DOMAIN line : line[k] # " "}
    IN  IF inked = {} THEN <<>>
        ELSE SubSeq(line, CHOOSE k \in inked : \A j \in inked : k <= j,
                          CHOOSE k \in inked : \A j \in inked : j <= k)

\* The entries of a domain list in input order: the lines of its files,
\* each without the white space around it, then the entries of its list.
RECURSIVE FileEntries(_)
FileEntries(files) ==
    IF files = <<>> THEN <<>>
    ELSE LET lines == FileSystem[Head(files)]
         IN  [k \in DOMAIN lines |-> Trimmed(lines[k])] \o FileEntries(Tail(files))

Entries(conf) ==
    (IF IsSome(conf.files) THEN FileEntries(Unwrap(conf.files)) ELSE <<>>)
        \o (IF IsSome(conf.list) THEN Unwrap(conf.list) ELSE <<>>)

Ignored(entry) == entry = <<>> \/ entry[1] = "#"
Tagged(entry) == ~Ignored(entry) /\ entry[1] = "regexp:"
Plain(entry) == ~Ignored(entry) /\ entry[1] # "regexp:"

DomainKeys == IF IsSome(builder.domains) THEN DOMAIN Unwrap(builder.domains) ELSE {}

\* C15 as claimed: regex_set is the regexp: entries without the prefix,
\* suffix_set the other entries that are neither blank nor comments without
\* one leading full: or dot, in input order, and nothing else is in either.
C15_PartitionOnlyInput ==
    Built =>
        \A key \in DomainKeys :
            LET entries == Entries(Unwrap(builder.domains)[key])
                tagged == SelectSeq(entries, Tagged)
                plain == SelectSeq(entries, Plain)
            IN  /\ BuiltConfig.domains[key].regex_set = [k \in DOMAIN tagged |-> Tail(tagged[k])]
                /\ BuiltConfig.domains[key].suffix_set = [k \in DOMAIN plain |-> StripOne(plain[k])]

\* C15, amended: suffix_set is the marker line followed by the entries that
\* are neither empty, comments nor regexp: entries, each without every
\* leading full: and then every leading dot; regex_set is the regexp:
\* entries without every leading regexp:; both in input order.
C15_PartitionAfterMarker ==
    Built =>
        \A key \in DomainKeys :
            LET entries == Entries(Unwrap(builder.domains)[key])
                tagged == SelectSeq(entries, Tagged)
                plain == SelectSeq(entries, Plain)
            IN  /\ BuiltConfig.domains[key].regex_set =
                       [k \in DOMAIN tagged |-> StripAll(tagged[k], "regexp:")]
                /\ BuiltConfig.domains[key].suffix_set =
                       <<Marker>> \o [k \in DOMAIN plain |-> StripAll(StripAll(plain[k], "full:"), ".")]

\* A domain list built from a file and a list with a comment and a doubled
\* full: prefix.
C15_Witness ==
    /\ Built
    /\ \E key \in DomainKeys :
          /\ Unwrap(builder.domains)[key].files = Some(<<"ads.txt">>)
          /\ Unwrap(builder.domains)[key].list = Some(<< <<"#", "ads">>, <<"full:", "full:", "a.com">> >>)
          /\ BuiltConfig.domains[key].regex_set = << <<"^ads">> >>
          /\ BuiltConfig.domains[key].suffix_set = <<Marker, <<"a.com">>, <<"a.com">> >>

\* The receive loop of q has been entered (for n = 0 it runs zero times).
LoopEntered(q) == pc[q] \in {"recv", "shutdown", "respond", "done"}

\* C16: the tasks of a query are spawned one per element of names, in the
\* order of names and for no other upstream; all of them are spawned before
\* the receive loop is entered, and the loop receives at most as many
\* messages as there are tasks, its bound being their number.
C16_FullFanOut ==
    \A q \in Queries :
        /\ Len(task[q]) <= Len(names[q])
        /\ \A k \in DOMAIN task[q] : task[q][k].name = names[q][k]
        /\ LoopEntered(q) => Len(task[q]) = Len(names[q])
        /\ ~LoopEntered(q) => received[q] = <<>> /\ i[q] = 0
        /\ Len(received[q]) <= Len(task[q])
        /\ i[q] <= Len(task[q])

\* Both tasks of a query routed to two upstreams are spawned and running
\* and the loop has not yet taken a message.
C16_Witness ==
    \E q \in Queries :
        /\ pc[q] = "recv"
        /\ Len(names[q]) = 2
        /\ \A k \in 1..2 : task[q][k].st = "running" /\ task[q][k].name = names[q][k]
        /\ names[q][1] # names[q][2]
        /\ received[q] = <<>>

\* The receive loop of q has ended, by its break or by exhaustion.
LoopEnded(q) == pc[q] \in {"shutdown", "respond", "done"} /\ WellFormed(q)

\* The answer the messages msgs decide: that of the first accepted message.
Decided(msgs) ==
    IF FirstAccepted(msgs) = 0 THEN None
    ELSE Some(Unwrap(msgs[FirstAccepted(msgs)])[1])

\* C17: the channel of a query with n selected upstreams never holds more
\* than n messages; a running task can always take its send step, and no send
\* finds the channel full; a send after the loop ended is queued and never
\* read, a send after the receiver is gone is refused as disconnected, and in
\* both cases the answer stays the one the received messages decided.
C17_ChannelNeverFull ==
    \A q \in Queries :
        /\ Len(chan[q]) <= Len(names[q])
        /\ \A k \in DOMAIN task[q] :
              /\ task[q][k].sent \in {"none", "Ok", "Disconnected"}
              /\ task[q][k].st = "running" => ENABLED TaskTimedOut(q, k)
              /\ task[q][k].sent = "Disconnected" =>
                    /\ ~rx[q]
                    /\ \A j \in DOMAIN arrived[q] : arrived[q][j].from # <<q, k>>
        /\ LoopEnded(q) =>
              /\ lookup_result[q] = Decided(received[q])
              /\ LookupReturned(q) => ReturnedLookup(q) = Decided(received[q])
              /\ IsSome(response[q]) =>
                    Answers(q) = (IF IsSome(Decided(received[q]))
                                  THEN Unwrap(Decided(received[q])).records ELSE <<>>)

\* The first task's answer was accepted and sent to the client; the second
\* task resolved afterwards and its send found the receiver gone.
C17_Witness ==
    \E q \in Queries :
        /\ pc[q] = "done"
        /\ Len(task[q]) = 2
        /\ Len(received[q]) = 1 /\ Len(arrived[q]) = 1
        /\ \E k \in 1..2 : task[q][k].outcome = "ok" /\ task[q][k].sent = "Disconnected"
        /\ Header(q).response_code = "NoError"

NoTaskRunning(q) == \A k \in DOMAIN task[q] : task[q][k].st # "running"

\* The tasks of q whose message the loop has received.
Heard(q) == {arrived[q][j].from[2] : j \in 1..Len(received[q])}

\* C18: an accepted answer ends the loop at once, whatever the other tasks
\* do, and lookup then returns without any step of a task; once the loop has
\* ended nothing more is received and the answer no longer changes; a task
\* the shutdown killed, or whose send found the receiver gone, was never
\* heard; and every task still running when the loop ended stops running.
C18_NoWaitForStragglers ==
    /\ [](\A q \in Queries :
            /\ IsSome(lookup_result[q]) => pc[q] \in {"shutdown", "respond", "done"}
            /\ \A k \in DOMAIN task[q] :
                  (task[q][k].st = "killed" \/ task[q][k].sent = "Disconnected") =>
                      /\ RuntimeShutDown(q)
                      /\ k \notin Heard(q))
    /\ [][\A q \in Queries :
            /\ pc[q] = "shutdown" =>
                  (pc'[q] # pc[q] => pc'[q] = "respond" /\ task'[q] = task[q])
            /\ LoopEnded(q) =>
                  /\ received'[q] = received[q]
                  /\ lookup_result'[q] = lookup_result[q]
                  /\ (IsSome(result[q]) => result'[q] = result[q])]_vars
    /\ \A q \in Queries : LoopEnded(q) ~> NoTaskRunning(q)

\* The client has the answer of the first task while the second task is
\* still running: lookup returned without it.
C18_Witness ==
    \E q \in Queries :
        /\ pc[q] = "done"
        /\ Len(task[q]) = 2
        /\ Header(q).response_code = "NoError"
        /\ \E k \in 1..2 : task[q][k].st = "running"

\* The positions in q's channel history of the messages task k of q sent.
SentBy(q, k) == {j \in DOMAIN arrived[q] : arrived[q][j].from = <<q, k>>}

\* C19: a task puts at most one message on the channel, none while it runs
\* or when it was killed, and exactly one when it finished before the
\* runtime was shut down; the message is the answer with the task's own
\* upstream name and the queried domain iff the resolve succeeded within the
\* timeout, and the negative marker after an error or a timeout.
C19_OneMessagePerTask ==
    \A q \in Queries : \A k \in DOMAIN task[q] :
        LET t == task[q][k]
        IN  /\ Cardinality(SentBy(q, k)) <= 1
            /\ t.st \in {"running", "killed"} => SentBy(q, k) = {} /\ t.sent = "none"
            /\ t.st = "finished" =>
                  /\ t.sent \in {"Ok", "Disconnected"}
                  /\ t.outcome \in {"ok", "error", "timeout"}
                  /\ t.sent = "Ok" <=> SentBy(q, k) # {}
                  /\ t.sent = "Disconnected" => RuntimeShutDown(q)
            /\ \A j \in SentBy(q, k) :
                  LET msg == arrived[q][j].msg
                  IN  /\ IsSome(msg) <=> t.outcome = "ok"
                      /\ IsSome(msg) =>
                            /\ Unwrap(msg)[1] \in Lookups
                            /\ Unwrap(msg)[2] = names[q][k]
                            /\ Unwrap(msg)[3] = Query(q).name

\* The task of the second upstream delivered its answer under its own name
\* and the task of the first, timed out, delivered the negative marker.
C19_Witness ==
    \E q \in Queries :
        /\ Len(task[q]) = 2 /\ names[q] = <<1, 2>>
        /\ task[q][1].outcome = "timeout" /\ task[q][2].outcome = "ok"
        /\ Len(arrived[q]) = 2
        /\ \E j \in SentBy(q, 1) : arrived[q][j].msg = None
        /\ \E j \in SentBy(q, 2) : Unwrap(arrived[q][j].msg)[2] = 2

\* C20: in every Config build returns, each name of default_upstreams and
\* each name in the upstreams list of a request rule is a key of upstreams.
C20_SelectedNamesAreUpstreams ==
    Built =>
        /\ Range(BuiltConfig.default_upstreams) \subseteq DOMAIN BuiltConfig.upstreams
        /\ \A k \in DOMAIN BuiltConfig.request_rules :
              Range(BuiltConfig.request_rules[k].upstreams) \subseteq DOMAIN BuiltConfig.upstreams

\* C21: handle_request sends exactly one response for every request it is
\* given, after dispatch for the request has finished: a response exists only
\* once do_handle_request has returned its result, and once nothing more can
\* happen for a request its response has been sent.
C21_ExactlyOneResponse ==
    \A q \in Queries :
        /\ IsSome(response[q]) <=> pc[q] = "done"
        /\ IsSome(response[q]) => IsSome(result[q])
        /\ Halted(q) => IsSome(response[q])

====
